---- MODULE Spec2Model ----
(***************************************************************************)
(* Model of torchquantum/layer/nlocal.py: the NLocal layer template, its   *)
(* TwoLocal specialisation (entanglement given by name or by layer class)  *)
(* and the three named ansaetze ExcitationPreserving, EfficientSU2 and     *)
(* RealAmplitudes.  A constructor call stores the options on the object,   *)
(* the base template reads the wire count and runs build_layers, which     *)
(* fills the module list statement by statement.                           *)
(***************************************************************************)
EXTENDS Integers, Sequences, FiniteSets, TLC

VARIABLES pc, self, call, layers_all, rep, next_id, err

vars == <<pc, self, call, layers_all, rep, next_id, err>>

(* ---- bounds of the explored inputs ---- *)
MaxOps == 2
MaxReps == 3

(* ---- values ---- *)
Str(v) == [tag |-> "str", val |-> v]
Class(v) == [tag |-> "class", val |-> v]
None == [tag |-> "None"]

Op1QAllLayer == Class("Op1QAllLayer")
Op2QAllLayer == Class("Op2QAllLayer")
Op2QDenseLayer == Class("Op2QDenseLayer")

EmptyParams == [k \in {} |-> TRUE]

(* gates a caller can put in rotation_ops / entanglement_ops *)
RotationGates == {"RY", "RZ"}
EntanglementGates == {"CNOT", "RXX", "RYY"}
CallerEntanglementGates == {"CNOT", "RXX"}

SeqsUpTo(S, n) == UNION {[1..k -> S] : k \in 0..n}

WireCounts == {0, 1, 2}
RepsValues == 0..MaxReps
TopologyNames == {"linear", "reverse_linear", "circular", "full"}
TopologyArgs == {Str(n) : n \in TopologyNames \cup {"ring"}}
                   \cup {Op2QAllLayer, Op2QDenseLayer}
CallerParams == {EmptyParams,
                 [has_params |-> TRUE, trainable |-> TRUE],
                 [wire_reverse |-> FALSE]}
InitialCircuits == {None,
                    [id |-> 0, layer |-> Op1QAllLayer, op |-> "RY",
                     n_wires |-> 2, params |-> EmptyParams]}

(* a Python call of a value that is not callable raises TypeError *)
callable(x) == x.tag = "class"

(* layer constructor: layer(op=..., n_wires=..., **params) *)
construct(layer, op, n_wires, params, id) ==
  [id |-> id, layer |-> layer, op |-> op, n_wires |-> n_wires, params |-> params]

(* LayerTemplate0.__init__: self.n_wires = arch["n_wires"] *)
LayerTemplate0_n_wires(arch) == arch.n_wires

(* ---- NLocal ---- *)

(* NLocal.__init__: the options are stored on the object unchanged *)
NLocal_init(rotation_ops, entanglement_ops, arch, rotation_layer, entanglement_layer, reps, rotation_layer_params, entanglement_layer_params, initial_circuit, skip_final_rotation_layer) ==
  [rotation_ops |-> rotation_ops,
   rotation_layer |-> rotation_layer,
   rotation_layer_params |-> rotation_layer_params,
   entanglement_ops |-> entanglement_ops,
   entanglement_layer |-> entanglement_layer,
   entanglement_layer_params |-> entanglement_layer_params,
   initial_circuit |-> initial_circuit,
   skip_final_rotation_layer |-> skip_final_rotation_layer,
   reps |-> reps,
   n_wires |-> LayerTemplate0_n_wires(arch)]

(* the first call of a non-callable layer raises; an empty op list calls nothing *)
block_raises(layer, ops) == ops # <<>> /\ ~callable(layer)

(* one layer per rotation op, in list order; base is the number of objects
   constructed so far *)
build_rotation_block(s, base) ==
  [i \in 1..Len(s.rotation_ops) |->
     construct(s.rotation_layer, s.rotation_ops[i], s.n_wires,
               s.rotation_layer_params, base + i)]

(* variant: the entanglement ops taken from the end of the list *)
build_entanglement_block_reversed(s, base) ==
  [i \in 1..Len(s.entanglement_ops) |->
     construct(s.entanglement_layer,
               s.entanglement_ops[Len(s.entanglement_ops) + 1 - i], s.n_wires,
               s.entanglement_layer_params, base + i)]

(* one layer per entanglement op, in list order *)
build_entanglement_block(s, base) ==
  [i \in 1..Len(s.entanglement_ops) |->
     construct(s.entanglement_layer, s.entanglement_ops[i], s.n_wires,
               s.entanglement_layer_params, base + i)]

(* variant: the initial circuit constructed anew on the template's wires *)
initial_layers_rebuilt(s) ==
  IF s.initial_circuit # None
  THEN <<construct(s.initial_circuit.layer, s.initial_circuit.op, s.n_wires,
                   s.initial_circuit.params, 0)>>
  ELSE <<>>

(* build_layers, "add the initial circuit" *)
initial_layers(s) ==
  IF s.initial_circuit # None THEN <<s.initial_circuit>> ELSE <<>>

(* variant: one iteration too many *)
loop_continues_inclusive(s, r) == r <= s.reps

(* build_layers, "for _ in range(self.reps)" after r completed iterations *)
loop_continues(s, r) == r < s.reps

(* variant: the skip flag read the wrong way round *)
final_rotation_layers_inverted(s, base) ==
  IF s.skip_final_rotation_layer THEN build_rotation_block(s, base) ELSE <<>>

(* build_layers, "add final rotation layer" *)
final_rotation_layers(s, base) ==
  IF ~s.skip_final_rotation_layer THEN build_rotation_block(s, base) ELSE <<>>

(* ---- TwoLocal ---- *)

(* variant: "full" resolved to the all-wires layer *)
TwoLocal_entanglement_layer_full_as_all(entanglement_layer) ==
  IF entanglement_layer \in {Str("linear"), Str("reverse_linear"),
                             Str("circular"), Str("full")}
  THEN Op2QAllLayer
  ELSE entanglement_layer

(* the if/elif chain of TwoLocal.__init__: the entanglement layer it passes on *)
TwoLocal_entanglement_layer(entanglement_layer) ==
  IF entanglement_layer = Str("linear") THEN Op2QAllLayer
  ELSE IF entanglement_layer = Str("reverse_linear") THEN Op2QAllLayer
  ELSE IF entanglement_layer = Str("circular") THEN Op2QAllLayer
  ELSE IF entanglement_layer = Str("full") THEN Op2QDenseLayer
  ELSE entanglement_layer

(* the same chain: the entanglement_layer_params it passes on *)
TwoLocal_entanglement_layer_params(entanglement_layer, entanglement_layer_params) ==
  IF entanglement_layer = Str("reverse_linear") THEN [wire_reverse |-> TRUE]
  ELSE IF entanglement_layer = Str("circular") THEN [circular |-> TRUE]
  ELSE entanglement_layer_params

TwoLocal_rotation_layer_params == [has_params |-> TRUE, trainable |-> TRUE]

TwoLocal_init(rotation_ops, entanglement_ops, arch, rotation_layer, entanglement_layer, reps, entanglement_layer_params, initial_circuit, skip_final_rotation_layer) ==
  NLocal_init(rotation_ops, entanglement_ops, arch, rotation_layer,
              TwoLocal_entanglement_layer(entanglement_layer), reps,
              TwoLocal_rotation_layer_params,
              TwoLocal_entanglement_layer_params(entanglement_layer,
                                                 entanglement_layer_params),
              initial_circuit, skip_final_rotation_layer)

(* ---- named ansaetze ---- *)

ExcitationPreserving_entanglement_layer_params ==
  [has_params |-> TRUE, trainable |-> TRUE]

(* variant: the two entanglement gates in the other order *)
ExcitationPreserving_init_swapped(arch, entanglement_layer, reps, skip_final_rotation_layer) ==
  TwoLocal_init(<<"RZ">>, <<"RYY", "RXX">>, arch, Op1QAllLayer,
                entanglement_layer, reps,
                ExcitationPreserving_entanglement_layer_params,
                None, skip_final_rotation_layer)

ExcitationPreserving_init(arch, entanglement_layer, reps, skip_final_rotation_layer) ==
  TwoLocal_init(<<"RZ">>, <<"RXX", "RYY">>, arch, Op1QAllLayer,
                entanglement_layer, reps,
                ExcitationPreserving_entanglement_layer_params,
                None, skip_final_rotation_layer)

EfficientSU2_init(arch, entanglement_layer, reps, skip_final_rotation_layer) ==
  TwoLocal_init(<<"RY", "RZ">>, <<"CNOT">>, arch, Op1QAllLayer,
                entanglement_layer, reps, EmptyParams,
                None, skip_final_rotation_layer)

(* variant: the rotation gates of EfficientSU2 *)
RealAmplitudes_init_with_rz(arch, entanglement_layer, reps, skip_final_rotation_layer) ==
  TwoLocal_init(<<"RY", "RZ">>, <<"CNOT">>, arch, Op1QAllLayer,
                entanglement_layer, reps, EmptyParams,
                None, skip_final_rotation_layer)

RealAmplitudes_init(arch, entanglement_layer, reps, skip_final_rotation_layer) ==
  TwoLocal_init(<<"RY">>, <<"CNOT">>, arch, Op1QAllLayer,
                entanglement_layer, reps, EmptyParams,
                None, skip_final_rotation_layer)

(* default arguments of the constructors *)
TwoLocal_default_entanglement_layer == Str("linear")
ExcitationPreserving_default_entanglement_layer == Str("full")
EfficientSU2_default_entanglement_layer == Str("reverse_linear")
RealAmplitudes_default_entanglement_layer == Str("reverse_linear")

(* ---- state machine ---- *)

NoSelf ==
  NLocal_init(<<>>, <<>>, [n_wires |-> 0], Op1QAllLayer, Op2QAllLayer, 0,
              EmptyParams, EmptyParams, None, FALSE)
NoCall ==
  [cls |-> "none", entanglement_layer |-> Op2QAllLayer,
   entanglement_layer_params |-> EmptyParams]

Init ==
  /\ pc = "start"
  /\ self = NoSelf
  /\ call = NoCall
  /\ layers_all = <<>>
  /\ rep = 0
  /\ next_id = 0
  /\ err = "none"

Enter(cls, entanglement_layer, entanglement_layer_params, s) ==
  /\ self' = s
  /\ call' = [cls |-> cls, entanglement_layer |-> entanglement_layer,
              entanglement_layer_params |-> entanglement_layer_params]
  /\ pc' = "build"
  /\ UNCHANGED <<layers_all, rep, next_id, err>>

(* NLocal(...) *)
CallNLocal ==
  /\ pc = "start"
  /\ \E rotation_ops \in SeqsUpTo(RotationGates, MaxOps),
     entanglement_ops \in SeqsUpTo(CallerEntanglementGates, MaxOps),
     n \in WireCounts,
     entanglement_layer \in {Op2QAllLayer, Op2QDenseLayer},
     reps \in RepsValues,
     rotation_layer_params \in {EmptyParams, TwoLocal_rotation_layer_params},
     entanglement_layer_params \in CallerParams,
     initial_circuit \in InitialCircuits,
     skip \in BOOLEAN :
    Enter("NLocal", entanglement_layer, entanglement_layer_params,
          NLocal_init(rotation_ops, entanglement_ops, [n_wires |-> n],
                      Op1QAllLayer, entanglement_layer, reps,
                      rotation_layer_params, entanglement_layer_params,
                      initial_circuit, skip))

(* TwoLocal(...) *)
CallTwoLocal ==
  /\ pc = "start"
  /\ \E rotation_ops \in SeqsUpTo(RotationGates, MaxOps),
     entanglement_ops \in SeqsUpTo(CallerEntanglementGates, MaxOps),
     n \in WireCounts,
     entanglement_layer \in TopologyArgs,
     reps \in RepsValues,
     entanglement_layer_params \in CallerParams,
     initial_circuit \in InitialCircuits,
     skip \in BOOLEAN :
    Enter("TwoLocal", entanglement_layer, entanglement_layer_params,
          TwoLocal_init(rotation_ops, entanglement_ops, [n_wires |-> n],
                        Op1QAllLayer, entanglement_layer, reps,
                        entanglement_layer_params, initial_circuit, skip))

(* ExcitationPreserving(...) *)
CallExcitationPreserving ==
  /\ pc = "start"
  /\ \E n \in WireCounts, entanglement_layer \in TopologyArgs,
     reps \in RepsValues, skip \in BOOLEAN :
    Enter("ExcitationPreserving", entanglement_layer,
          ExcitationPreserving_entanglement_layer_params,
          ExcitationPreserving_init([n_wires |-> n], entanglement_layer, reps, skip))

(* EfficientSU2(...) *)
CallEfficientSU2 ==
  /\ pc = "start"
  /\ \E n \in WireCounts, entanglement_layer \in TopologyArgs,
     reps \in RepsValues, skip \in BOOLEAN :
    Enter("EfficientSU2", entanglement_layer, EmptyParams,
          EfficientSU2_init([n_wires |-> n], entanglement_layer, reps, skip))

(* RealAmplitudes(...) *)
CallRealAmplitudes ==
  /\ pc = "start"
  /\ \E n \in WireCounts, entanglement_layer \in TopologyArgs,
     reps \in RepsValues, skip \in BOOLEAN :
    Enter("RealAmplitudes", entanglement_layer, EmptyParams,
          RealAmplitudes_init([n_wires |-> n], entanglement_layer, reps, skip))

(* build_layers: new module list, then the initial circuit if there is one *)
AddInitialCircuit ==
  /\ pc = "build"
  /\ layers_all' = initial_layers(self)
  /\ rep' = 0
  /\ pc' = "loop"
  /\ UNCHANGED <<self, call, next_id, err>>

(* build_layers: layers_all.extend(self.build_rotation_block()) in the loop *)
AddRotationBlock ==
  /\ pc = "loop"
  /\ loop_continues(self, rep)
  /\ IF block_raises(self.rotation_layer, self.rotation_ops)
     THEN /\ pc' = "error"
          /\ err' = "TypeError"
          /\ layers_all' = <<>>
          /\ UNCHANGED next_id
     ELSE /\ layers_all' = layers_all \o build_rotation_block(self, next_id)
          /\ next_id' = next_id + Len(self.rotation_ops)
          /\ pc' = "entangle"
          /\ UNCHANGED err
  /\ UNCHANGED <<self, call, rep>>

(* build_layers: layers_all.extend(self.build_entanglement_block()) in the loop *)
AddEntanglementBlock ==
  /\ pc = "entangle"
  /\ ~block_raises(self.entanglement_layer, self.entanglement_ops)
  /\ layers_all' = layers_all \o build_entanglement_block(self, next_id)
  /\ next_id' = next_id + Len(self.entanglement_ops)
  /\ rep' = rep + 1
  /\ pc' = "loop"
  /\ UNCHANGED <<self, call, err>>

(* build_entanglement_block calls a string: the exception leaves the constructor *)
EntanglementBlockRaises ==
  /\ pc = "entangle"
  /\ block_raises(self.entanglement_layer, self.entanglement_ops)
  /\ pc' = "error"
  /\ err' = "TypeError"
  /\ layers_all' = <<>>
  /\ UNCHANGED <<self, call, rep, next_id>>

(* build_layers: the final rotation layer and the return *)
AddFinalRotation ==
  /\ pc = "loop"
  /\ ~loop_continues(self, rep)
  /\ IF ~self.skip_final_rotation_layer
        /\ block_raises(self.rotation_layer, self.rotation_ops)
     THEN /\ pc' = "error"
          /\ err' = "TypeError"
          /\ layers_all' = <<>>
          /\ UNCHANGED next_id
     ELSE /\ layers_all' = layers_all \o final_rotation_layers(self, next_id)
          /\ next_id' = next_id + Len(final_rotation_layers(self, next_id))
          /\ pc' = "done"
          /\ UNCHANGED err
  /\ UNCHANGED <<self, call, rep>>

Next ==
  \/ CallNLocal
  \/ CallTwoLocal
  \/ CallExcitationPreserving
  \/ CallEfficientSU2
  \/ CallRealAmplitudes
  \/ AddInitialCircuit
  \/ AddRotationBlock
  \/ AddEntanglementBlock
  \/ EntanglementBlockRaises
  \/ AddFinalRotation

Spec == Init /\ [][Next]_vars

TypeOK ==
  /\ pc \in {"start", "build", "loop", "entangle", "done", "error"}
  /\ rep \in 0..MaxReps
  /\ err \in {"none", "TypeError"}

(* ---- vocabulary of the properties ---- *)

Done == pc = "done"
HasInitial == self.initial_circuit # None
Offset == IF HasInitial THEN 1 ELSE 0
NRot == Len(self.rotation_ops)
NEnt == Len(self.entanglement_ops)
GroupLen == NRot + NEnt
TwoLocalFamily ==
  call.cls \in {"TwoLocal", "ExcitationPreserving", "EfficientSU2", "RealAmplitudes"}

(* b is a freshly constructed layer of this kind, op and params on the
   template's wires *)
BuiltAs(b, layer, op, params) ==
  /\ b.id # 0
  /\ b.layer = layer
  /\ b.op = op
  /\ b.n_wires = self.n_wires
  /\ b.params = params

IsRotationBlock(b, k) ==
  BuiltAs(b, self.rotation_layer, self.rotation_ops[k], self.rotation_layer_params)

IsEntanglementBlock(b, k) ==
  BuiltAs(b, self.entanglement_layer, self.entanglement_ops[k],
          self.entanglement_layer_params)

ExpectedLength ==
  Offset + self.reps * GroupLen
         + (IF self.skip_final_rotation_layer THEN 0 ELSE NRot)

(* C1: the sequence returned by build_layers has length
   (1 if an initial circuit is given, else 0)
   + reps * (|rotation_ops| + |entanglement_ops|)
   + (0 if skip_final_rotation_layer, else |rotation_ops|). *)
C1_Length == Done => Len(layers_all) = ExpectedLength

C1_Witness ==
  /\ Done
  /\ HasInitial
  /\ self.reps >= 2
  /\ NRot = 2
  /\ NEnt = 1
  /\ ~self.skip_final_rotation_layer
  /\ Len(layers_all) >= 9

(* C2: after the optional initial circuit the returned sequence is exactly
   reps groups, each one block per rotation op in list order followed by one
   block per entanglement op in list order, and then, only when
   skip_final_rotation_layer is false, one more block per rotation op in list
   order; every block is built from its own layer kind with that op, the wire
   count and its own extra params. *)
C2_Order ==
  Done =>
    /\ Len(layers_all) = ExpectedLength
    /\ \A j \in 1..(Len(layers_all) - Offset) :
         LET b == layers_all[Offset + j] IN
         IF j <= self.reps * GroupLen
         THEN LET pos == ((j - 1) % GroupLen) + 1 IN
              IF pos <= NRot
              THEN IsRotationBlock(b, pos)
              ELSE IsEntanglementBlock(b, pos - NRot)
         ELSE /\ ~self.skip_final_rotation_layer
              /\ IsRotationBlock(b, j - self.reps * GroupLen)

C2_Witness ==
  /\ Done
  /\ self.reps >= 2
  /\ NRot = 2
  /\ NEnt = 2
  /\ self.rotation_ops[1] # self.rotation_ops[2]
  /\ self.entanglement_ops[1] # self.entanglement_ops[2]
  /\ ~self.skip_final_rotation_layer
  /\ Len(layers_all) >= 10

UnknownTopologyName ==
  /\ call.entanglement_layer.tag = "str"
  /\ call.entanglement_layer.val \notin TopologyNames

(* C3: given an entanglement name that is a string other than "linear",
   "reverse_linear", "circular" or "full", TwoLocal and the ansaetze built on
   it always fail with UnknownTopology and never return a template, whatever
   reps and the entanglement op list are. *)
C3_UnknownTopologyFails ==
  (TwoLocalFamily /\ UnknownTopologyName /\ self.n_wires >= 1
     /\ pc \in {"done", "error"}) =>
    (pc = "error" /\ err = "UnknownTopology")

(* the overrides a topology name stands for *)
ParamOverrides(entanglement_layer) ==
  IF entanglement_layer = Str("reverse_linear") THEN [wire_reverse |-> TRUE]
  ELSE IF entanglement_layer = Str("circular") THEN [circular |-> TRUE]
  ELSE EmptyParams

MergeParams(user, override) ==
  [k \in (DOMAIN user) \cup (DOMAIN override) |->
     IF k \in DOMAIN override THEN override[k] ELSE user[k]]

(* C4: the params given to each entanglement block are the caller's
   entanglement_layer_params merged with the topology's overrides: every
   caller key that is not an override key keeps its value, an override key
   takes the override value. *)
C4_ParamsMerged ==
  (TwoLocalFamily /\ pc # "start" /\ self.n_wires >= 1) =>
    \A i \in 1..Len(layers_all) :
      (layers_all[i].id # 0 /\ layers_all[i].op \in EntanglementGates) =>
        layers_all[i].params =
          MergeParams(call.entanglement_layer_params,
                      ParamOverrides(call.entanglement_layer))

(* C5: TwoLocal resolves "linear" to Op2QAllLayer with the caller's params,
   "reverse_linear" to Op2QAllLayer with wire_reverse = true, "circular" to
   Op2QAllLayer with circular = true, "full" to Op2QDenseLayer with the
   caller's params, and hands a layer class through unchanged. *)
C5_TopologyTable ==
  (TwoLocalFamily /\ pc # "start") =>
    LET a == call.entanglement_layer
        p == self.entanglement_layer_params
    IN /\ a = Str("linear") =>
            /\ self.entanglement_layer = Op2QAllLayer
            /\ p = call.entanglement_layer_params
       /\ a = Str("reverse_linear") =>
            /\ self.entanglement_layer = Op2QAllLayer
            /\ "wire_reverse" \in DOMAIN p
            /\ p["wire_reverse"] = TRUE
       /\ a = Str("circular") =>
            /\ self.entanglement_layer = Op2QAllLayer
            /\ "circular" \in DOMAIN p
            /\ p["circular"] = TRUE
       /\ a = Str("full") =>
            /\ self.entanglement_layer = Op2QDenseLayer
            /\ p = call.entanglement_layer_params
       /\ a.tag = "class" =>
            /\ self.entanglement_layer = a
            /\ p = call.entanglement_layer_params

C5_Witness ==
  /\ Done
  /\ call.cls = "TwoLocal"
  /\ call.entanglement_layer = Str("full")
  /\ self.reps >= 1
  /\ NEnt >= 1
  /\ \E i \in 1..Len(layers_all) : layers_all[i].layer = Op2QDenseLayer

(* C6 as stated: a supplied initial circuit is the first element of the
   returned sequence, is the object that was supplied and occurs once; with
   none supplied the sequence is empty or starts with the first rotation
   block. *)
C6_InitialFirstOrRotation ==
  (Done /\ self.n_wires >= 1) =>
    /\ HasInitial =>
         /\ Len(layers_all) >= 1
         /\ layers_all[1] = self.initial_circuit
         /\ Cardinality({i \in 1..Len(layers_all) : layers_all[i].id = 0}) = 1
    /\ ~HasInitial =>
         \/ layers_all = <<>>
         \/ /\ NRot >= 1
            /\ IsRotationBlock(layers_all[1], 1)

(* C6 amended: a supplied initial circuit is the first element of the
   returned sequence, is the object that was supplied and occurs once; with
   none supplied the sequence is empty, or starts with the first rotation
   block when rotation_ops is not empty, or starts with the first
   entanglement block when rotation_ops is empty. *)
C6_InitialFirst ==
  Done =>
    /\ HasInitial =>
         /\ Len(layers_all) >= 1
         /\ layers_all[1] = self.initial_circuit
         /\ Cardinality({i \in 1..Len(layers_all) : layers_all[i].id = 0}) = 1
    /\ ~HasInitial =>
         \/ layers_all = <<>>
         \/ /\ NRot >= 1
            /\ IsRotationBlock(layers_all[1], 1)
         \/ /\ NRot = 0
            /\ NEnt >= 1
            /\ IsEntanglementBlock(layers_all[1], 1)

C6_Witness ==
  /\ Done
  /\ HasInitial
  /\ self.initial_circuit.n_wires # self.n_wires
  /\ self.reps >= 1
  /\ ~self.skip_final_rotation_layer
  /\ NRot >= 1
  /\ Len(layers_all) >= 4

(* C7: with reps = 0, skip_final_rotation_layer false, no initial circuit and
   rotation_ops not empty the result is exactly one block per rotation op, in
   list order, and no entanglement block; with reps = 0 and
   skip_final_rotation_layer true the result is the initial circuit alone, or
   empty when there is none. *)
C7_ZeroReps ==
  (Done /\ self.reps = 0) =>
    /\ (~self.skip_final_rotation_layer /\ ~HasInitial /\ NRot >= 1) =>
         /\ Len(layers_all) = NRot
         /\ \A i \in 1..Len(layers_all) :
              /\ IsRotationBlock(layers_all[i], i)
              /\ layers_all[i].op \notin EntanglementGates
    /\ self.skip_final_rotation_layer =>
         \/ HasInitial /\ layers_all = <<self.initial_circuit>>
         \/ ~HasInitial /\ layers_all = <<>>

C7_Witness ==
  /\ Done
  /\ self.reps = 0
  /\ ~self.skip_final_rotation_layer
  /\ ~HasInitial
  /\ NRot = 2
  /\ NEnt >= 1
  /\ Len(layers_all) = 2

(* C8: ExcitationPreserving with reps = 1 and skip_final_rotation_layer true
   returns exactly three blocks, an RZ rotation block, an RXX entanglement
   block and an RYY entanglement block in this order; with the default
   entanglement "full" the two entanglement blocks are Op2QDenseLayer. *)
C8_ExcitationPreserving ==
  (Done /\ call.cls = "ExcitationPreserving" /\ self.reps = 1
        /\ self.skip_final_rotation_layer) =>
    /\ Len(layers_all) = 3
    /\ layers_all[1].op = "RZ"
    /\ layers_all[1].layer = Op1QAllLayer
    /\ layers_all[2].op = "RXX"
    /\ layers_all[3].op = "RYY"
    /\ call.entanglement_layer = ExcitationPreserving_default_entanglement_layer =>
         /\ layers_all[2].layer = Op2QDenseLayer
         /\ layers_all[3].layer = Op2QDenseLayer

C8_Witness ==
  /\ Done
  /\ call.cls = "ExcitationPreserving"
  /\ call.entanglement_layer = ExcitationPreserving_default_entanglement_layer
  /\ self.reps = 1
  /\ self.skip_final_rotation_layer
  /\ Len(layers_all) = 3

(* C9: RealAmplitudes with reps = 3 and skip_final_rotation_layer false on two
   wires returns exactly seven blocks that alternate RY rotation block and
   CNOT entanglement block, first and last an RY block; with the default
   entanglement "reverse_linear" the CNOT blocks are Op2QAllLayer with
   wire_reverse = true. *)
C9_RealAmplitudes ==
  (Done /\ call.cls = "RealAmplitudes" /\ self.reps = 3
        /\ ~self.skip_final_rotation_layer /\ self.n_wires = 2) =>
    /\ Len(layers_all) = 7
    /\ \A i \in 1..Len(layers_all) :
         /\ layers_all[i].n_wires = 2
         /\ i % 2 = 1 =>
              /\ layers_all[i].op = "RY"
              /\ layers_all[i].layer = Op1QAllLayer
         /\ i % 2 = 0 =>
              /\ layers_all[i].op = "CNOT"
              /\ call.entanglement_layer = RealAmplitudes_default_entanglement_layer =>
                   /\ layers_all[i].layer = Op2QAllLayer
                   /\ "wire_reverse" \in DOMAIN layers_all[i].params
                   /\ layers_all[i].params["wire_reverse"] = TRUE

C9_Witness ==
  /\ Done
  /\ call.cls = "RealAmplitudes"
  /\ call.entanglement_layer = RealAmplitudes_default_entanglement_layer
  /\ self.reps = 3
  /\ ~self.skip_final_rotation_layer
  /\ self.n_wires = 2
  /\ Len(layers_all) = 7

(* C10: building a template whose wire count is less than 1 always fails with
   InvalidWireCount and returns no template. *)
C10_InvalidWireCountFails ==
  (self.n_wires < 1 /\ pc \in {"done", "error"}) =>
    (pc = "error" /\ err = "InvalidWireCount" /\ layers_all = <<>>)

====
